---- MODULE Spec2Model ----
(***************************************************************************)
(* A model of run_weekly.py: the DataFrame normaliser, the period fetcher, *)
(* the chart and HTML writers and the main pipeline.                       *)
(*                                                                         *)
(* Values of Python/pandas cells are tagged records [t, s, n]:             *)
(*   t = "none"  None            t = "nan"  NaN        t = "nat"  NaT      *)
(*   t = "str"   a string s      t = "num"  a number n                     *)
(*   t = "ts"    a Timestamp, n = yyyymmdd                                 *)
(*   t = "list"  a list of n strings whose first element is s              *)
(***************************************************************************)
EXTENDS Integers, Sequences, FiniteSets, TLC

VARIABLES
    raw,        \* the argument of a direct normalize_gsc_df call
    res1,       \* what that call produced
    res2,       \* what normalize_gsc_df produced on res1's table
    npc,        \* position of the normaliser driver
    entry,      \* the function that was called: main, fetch_gsc_data, write_report_html
    env,        \* os.environ
    pc,         \* position in the called function
    service,    \* the service client: "None" or "service"
    prev_range, \* main's prev_start, prev_end
    df_current, \* the current-period table
    df_prev,    \* the previous-period table
    fetch_calls,\* the calls of fetch_gsc_data so far, each with what became of it
    chart_created, \* what create_chart returned
    chart_file, \* whether reports/weekly_chart.png was written
    chart_run,  \* what became of the rendering in create_chart
    html        \* reports/index.html

normVars == <<raw, res1, res2, npc>>

mainVars == <<entry, env, pc, service, prev_range, df_current, df_prev,
              fetch_calls, chart_created, chart_file, chart_run, html>>

vars == <<normVars, mainVars>>

----------------------------------------------------------------------------
(* Cells *)

NoneCell == [t |-> "none", s |-> "", n |-> 0]
NaN == [t |-> "nan", s |-> "", n |-> 0]
NaT == [t |-> "nat", s |-> "", n |-> 0]
Str(x) == [t |-> "str", s |-> x, n |-> 0]
Num(k) == [t |-> "num", s |-> "", n |-> k]
Ts(k) == [t |-> "ts", s |-> "", n |-> k]
ListOf(len, first) == [t |-> "list", s |-> first, n |-> len]

IsNull(c) == c.t \in {"none", "nan", "nat"}

----------------------------------------------------------------------------
(* DataFrames: columns is the sequence of column labels, index_name the   *)
(* name of the index ("" for None), rows the sequence of rows, each with  *)
(* its index label idx and its cells c, aligned with columns.             *)

schema == <<"date", "clicks", "impressions", "ctr", "position">>

metric_cols == <<"clicks", "impressions", "ctr", "position">>

DataFrame(cols, iname, rows) ==
    [kind |-> "df", columns |-> cols, index_name |-> iname, rows |-> rows]

\* pd.DataFrame(columns=schema)
empty == DataFrame(schema, "", <<>>)

\* None, and a value that is not a DataFrame
NoneValue == [kind |-> "none", columns |-> <<>>, index_name |-> "", rows |-> <<>>]
NotAFrame == [kind |-> "other", columns |-> <<>>, index_name |-> "", rows |-> <<>>]

\* DataFrame.empty: some axis has length 0
df_empty(df) == Len(df.rows) = 0 \/ Len(df.columns) = 0

ColSet(df) == {df.columns[i] : i \in 1..Len(df.columns)}

ColPositions(df, name) == {i \in 1..Len(df.columns) : df.columns[i] = name}

ColPos(df, name) == CHOOSE i \in ColPositions(df, name) : TRUE

\* str(c).strip() on the column labels of the model
strip(c) ==
    CASE c = " date" -> "date"
      [] c = "clicks " -> "clicks"
      [] c = " Date " -> "Date"
      [] OTHER -> c

\* str.lower() on the (stripped) index names of the model
lower(c) ==
    CASE c = "Date" -> "date"
      [] OTHER -> c

\* the text -> calendar date table of the strings of the model (0: unparseable)
DateStringValue(s) ==
    CASE s = "2024-01-01" -> 20240101
      [] s = "2024-01-02" -> 20240102
      [] OTHER -> 0

\* the text -> number table of the strings of the model
NumStringParses(s) == s \in {"7", "100"}

NumStringValue(s) ==
    CASE s = "7" -> 7
      [] s = "100" -> 100
      [] OTHER -> 0

\* to_datetime as it would be if values that are already Timestamps were not
\* recognised
to_datetime_text_only(c) ==
    IF c.t = "str" /\ DateStringValue(c.s) # 0 THEN Ts(DateStringValue(c.s)) ELSE NaT

\* pd.to_datetime(..., errors="coerce") on one cell
to_datetime(c) ==
    CASE c.t = "ts" -> c
      [] c.t = "str" -> IF DateStringValue(c.s) # 0 THEN Ts(DateStringValue(c.s)) ELSE NaT
      [] c.t = "num" -> Ts(19700101)     \* integers are nanoseconds since the epoch
      [] OTHER -> NaT

\* pd.to_numeric(..., errors="coerce") on one cell
to_numeric(c) ==
    CASE c.t = "num" -> c
      [] c.t = "str" -> IF NumStringParses(c.s) THEN Num(NumStringValue(c.s)) ELSE NaN
      [] OTHER -> NaN

\* Series.fillna(0) on one cell
fillna0(c) == IF IsNull(c) THEN Num(0) ELSE c

\* lambda x: x[0] if isinstance(x, list) and len(x) else None
first_key(x) == IF x.t = "list" /\ x.n > 0 THEN Str(x.s) ELSE NoneCell

\* df[name] = vals (one value per row), appending the column when it is new
WithColumn(df, name, vals) ==
    IF ColPositions(df, name) = {}
    THEN [df EXCEPT !.columns = Append(@, name),
                    !.rows = [i \in 1..Len(@) |-> [@[i] EXCEPT !.c = Append(@, vals[i])]]]
    ELSE [df EXCEPT !.rows = [i \in 1..Len(@) |->
                               [@[i] EXCEPT !.c[ColPos(df, name)] = vals[i]]]]

\* df[name].apply(f) is written [i \in Rows(df) |-> f(Cell(df, i, name))]
Rows(df) == 1..Len(df.rows)

Cell(df, i, name) == df.rows[i].c[ColPos(df, name)]

\* df.reset_index(): the index becomes the first column, under the index's name
reset_index(df) ==
    [df EXCEPT !.columns = <<df.index_name>> \o @,
               !.index_name = "",
               !.rows = [i \in 1..Len(@) |-> [idx |-> Num(i - 1), c |-> <<@[i].idx>> \o @[i].c]]]

\* df.dropna(subset=["date"])
RECURSIVE KeepDated(_, _)
KeepDated(rows, p) ==
    IF rows = <<>> THEN <<>>
    ELSE IF IsNull(Head(rows).c[p]) THEN KeepDated(Tail(rows), p)
         ELSE <<Head(rows)>> \o KeepDated(Tail(rows), p)

\* dropna_date as it would be if one bad date made the whole table unusable
dropna_date_all_or_nothing(df) ==
    IF \E i \in 1..Len(df.rows) : IsNull(df.rows[i].c[ColPos(df, "date")])
    THEN [df EXCEPT !.rows = <<>>]
    ELSE df

dropna_date(df) == [df EXCEPT !.rows = KeepDated(@, ColPos(df, "date"))]

Returned(df) == [exc |-> "", df |-> df]
Raised(e) == [exc |-> e, df |-> NoneValue]

\* lines 81-84: the loop over the metric columns, from column k on
RECURSIVE NumericLoop(_, _)
NumericLoop(df, k) ==
    IF k > Len(metric_cols) THEN Returned(df)
    ELSE LET col == metric_cols[k]
             d1 == IF col \notin ColSet(df)
                   THEN WithColumn(df, col, [i \in Rows(df) |-> Num(0)])
                   ELSE df
         IN  IF Cardinality(ColPositions(d1, col)) > 1
             THEN \* df[col] is a DataFrame: pd.to_numeric rejects it
                  Raised("TypeError")
             ELSE NumericLoop(
                      WithColumn(d1, col,
                                 [i \in Rows(d1) |-> fillna0(to_numeric(Cell(d1, i, col)))]),
                      k + 1)

\* df[["date", "clicks", "impressions", "ctr", "position"]]
Project(df) ==
    [df EXCEPT !.columns = schema,
               !.rows = [i \in 1..Len(@) |->
                          [@[i] EXCEPT !.c = [j \in 1..Len(schema) |-> @[ColPos(df, schema[j])]]]]]

\* lines 58-67: the rescue of a missing date column
RescueDate(df) ==
    IF "date" \in ColSet(df) THEN df
    ELSE IF "keys" \in ColSet(df)
         THEN WithColumn(df, "date", [i \in Rows(df) |-> first_key(Cell(df, i, "keys"))])
         ELSE IF df.index_name # "" /\ lower(strip(df.index_name)) = "date"
              THEN reset_index(df)
              ELSE df

normalize_gsc_df(df) ==
    IF df.kind # "df" \/ df_empty(df) THEN Returned(empty)
    ELSE LET d1 == [df EXCEPT !.columns = [i \in 1..Len(@) |-> strip(@[i])]]
             d2 == RescueDate(d1)
         IN  IF "date" \notin ColSet(d2) THEN Returned(empty)
             ELSE IF Cardinality(ColPositions(d2, "date")) > 1
                  THEN \* df["date"] is a DataFrame: pd.to_datetime cannot assemble it
                       Raised("ValueError")
                  ELSE LET d3 == WithColumn(d2, "date",
                                            [i \in Rows(d2) |-> to_datetime(Cell(d2, i, "date"))])
                           d4 == dropna_date(d3)
                       IN  IF df_empty(d4) THEN Returned(empty)
                           ELSE LET r == NumericLoop(d4, 1)
                                IN  IF r.exc # "" THEN r ELSE Returned(Project(r.df))

----------------------------------------------------------------------------
(* Configuration texts and dates.  A configured text is missing (None),   *)
(* empty, not a date at all, or y-m-d digits, zero-padded (p) or not.     *)

Missing == [k |-> "missing", y |-> 0, m |-> 0, d |-> 0, p |-> FALSE]
EmptyText == [k |-> "empty", y |-> 0, m |-> 0, d |-> 0, p |-> FALSE]
Garbage == [k |-> "garbage", y |-> 0, m |-> 0, d |-> 0, p |-> FALSE]
DateText(y, m, d, p) == [k |-> "ymd", y |-> y, m |-> m, d |-> d, p |-> p]

\* Python's truth value of a configured text
Truthy(s) == s.k \notin {"missing", "empty"}

\* datetime values; NoDate is None
NoDate == [ok |-> FALSE, y |-> 0, m |-> 0, d |-> 0]
Date(y, m, d) == [ok |-> TRUE, y |-> y, m |-> m, d |-> d]

IsLeap(y) == y % 4 = 0 /\ (y % 100 # 0 \/ y % 400 = 0)

DaysInMonth(y, m) ==
    CASE m \in {1, 3, 5, 7, 8, 10, 12} -> 31
      [] m \in {4, 6, 9, 11} -> 30
      [] OTHER -> IF IsLeap(y) THEN 29 ELSE 28

\* datetime.strptime(s, "%Y-%m-%d") inside try/except: None on any failure
parse_ymd(s) ==
    IF /\ s.k = "ymd"
       /\ s.y \in 1..9999
       /\ s.m \in 1..12
       /\ s.d \in 1..DaysInMonth(s.y, s.m)
    THEN Date(s.y, s.m, s.d)
    ELSE NoDate

\* datetime.strftime("%Y-%m-%d")
strftime(dt) == DateText(dt.y, dt.m, dt.d, TRUE)

RECURSIVE DaysBeforeMonth(_, _)
DaysBeforeMonth(y, m) == IF m = 1 THEN 0 ELSE DaysBeforeMonth(y, m - 1) + DaysInMonth(y, m - 1)

DaysBeforeYear(y) == (y - 1) * 365 + ((y - 1) \div 4) - ((y - 1) \div 100) + ((y - 1) \div 400)

\* datetime.toordinal
ymd2ord(dt) == DaysBeforeYear(dt.y) + DaysBeforeMonth(dt.y, dt.m) + dt.d

\* datetime.fromordinal, for an ordinal in year y or the year before
ord2ymd(n, y) ==
    LET yy == IF n > DaysBeforeYear(y) THEN y ELSE y - 1
        r == n - DaysBeforeYear(yy)
        mm == CHOOSE m \in 1..12 :
                  DaysBeforeMonth(yy, m) < r /\ r <= DaysBeforeMonth(yy, m) + DaysInMonth(yy, m)
    IN  Date(yy, mm, r - DaysBeforeMonth(yy, mm))

\* dt - timedelta(days=n), n at most a year; before 0001-01-01 it raises
\* OverflowError, which is NoDate here
minus_days(dt, n) ==
    IF ymd2ord(dt) - n < 1 THEN NoDate ELSE ord2ymd(ymd2ord(dt) - n, dt.y)

NoRange == <<Missing, Missing>>

\* the exception of minus_days leaving calc_prev_week
RaisedText == [k |-> "raised", y |-> 0, m |-> 0, d |-> 0, p |-> FALSE]
RaisedRange == <<RaisedText, RaisedText>>

\* calc_prev_week as it would be with the end moved by one day too few
calc_prev_week_off_by_one(start, end) ==
    LET s == parse_ymd(start)
        e == parse_ymd(end)
    IN  IF ~s.ok \/ ~e.ok THEN NoRange
        ELSE IF ~minus_days(s, 7).ok \/ ~minus_days(e, 6).ok THEN RaisedRange
        ELSE <<strftime(minus_days(s, 7)), strftime(minus_days(e, 6))>>

calc_prev_week(start, end) ==
    LET s == parse_ymd(start)
        e == parse_ymd(end)
    IN  IF ~s.ok \/ ~e.ok THEN NoRange
        ELSE IF ~minus_days(s, 7).ok \/ ~minus_days(e, 7).ok THEN RaisedRange
        ELSE <<strftime(minus_days(s, 7)), strftime(minus_days(e, 7))>>

\* main, lines 292-294
prev_week_or_default(start, end) ==
    LET r == calc_prev_week(start, end)
    IN  IF r = RaisedRange THEN r
        ELSE IF ~Truthy(r[1]) \/ ~Truthy(r[2])
        THEN <<DateText(2000, 1, 1, TRUE), DateText(2000, 1, 1, TRUE)>>
        ELSE r

\* dates_malformed as it would be if only the start date were checked
dates_malformed_start_only(start, end) == ~parse_ymd(start).ok

\* main, line 284
dates_malformed(start, end) == ~parse_ymd(start).ok \/ ~parse_ymd(end).ok

----------------------------------------------------------------------------
(* get_service_client and fetch_gsc_data *)

\* GOOGLE_SA_JSON is "missing", "invalid" (json.loads or the credentials
\* constructor raises) or "valid"
get_service_client(sa_json) == IF sa_json = "valid" THEN "service" ELSE "None"

\* What the API call does: raises, answers something that is no mapping,
\* or answers a mapping whose "rows" is a list of API rows (absent: <<>>).
Response(kind, rows) == [kind |-> kind, rows |-> rows]

\* pd.DataFrame(rows) of a list of API rows
FrameOfRows(rows) ==
    DataFrame(<<"keys", "clicks", "impressions", "ctr", "position">>, "",
              [i \in 1..Len(rows) |->
                 [idx |-> Num(i - 1),
                  c |-> <<rows[i].keys, rows[i].clicks, rows[i].impressions,
                          rows[i].ctr, rows[i].position>>]])

\* lines 106-120, the body of the try block
fetch_body(svc, resp) ==
    IF svc = "None" THEN Raised("AttributeError")
    ELSE IF resp.kind = "raise" THEN Raised("HttpError")
    ELSE IF resp.kind = "bad" THEN Raised("AttributeError")
    ELSE IF resp.rows = <<>> THEN normalize_gsc_df(DataFrame(<<>>, "", <<>>))
    ELSE LET df == FrameOfRows(resp.rows)
             d1 == IF "keys" \in ColSet(df) /\ "date" \notin ColSet(df)
                   THEN WithColumn(df, "date",
                                   [i \in Rows(df) |-> first_key(Cell(df, i, "keys"))])
                   ELSE df
         IN  normalize_gsc_df(d1)

\* fetch_handler as it would be if only the API's own error were caught
fetch_handler_http_only(r) ==
    IF r.exc = "HttpError" THEN normalize_gsc_df(DataFrame(<<>>, "", <<>>)) ELSE r

\* lines 122-124: except Exception
fetch_handler(r) ==
    IF r.exc # "" THEN normalize_gsc_df(DataFrame(<<>>, "", <<>>)) ELSE r

fetch_gsc_data(svc, resp) == fetch_handler(fetch_body(svc, resp))

\* the record kept of one call
FetchCall(svc, start, end, resp, r) ==
    [service |-> svc, start |-> start, end |-> end,
     failed |-> fetch_body(svc, resp).exc # "",
     queried |-> svc # "None",
     exc |-> r.exc, df |-> r.df]

----------------------------------------------------------------------------
(* create_chart *)

\* What the rendering does: "ok", "fail_before_save" (sort_values, plot or
\* makedirs raises), "fail_after_save" (savefig raises after opening the file,
\* or plt.close raises)
ChartOutcomes == {"ok", "fail_before_save", "fail_after_save"}

\* [exc, created, file, run]: the exception that escapes, the value returned,
\* whether the image file was written, and what became of the rendering
create_chart(df, outcome) ==
    LET r == normalize_gsc_df(df)
    IN  IF r.exc # "" THEN [exc |-> r.exc, created |-> FALSE, file |-> FALSE, run |-> "raised"]
        ELSE IF df_empty(r.df)
             THEN [exc |-> "", created |-> FALSE, file |-> FALSE, run |-> "skipped"]
             ELSE [exc |-> "",
                   created |-> (outcome = "ok"),
                   file |-> (outcome # "fail_before_save"),
                   run |-> outcome]

----------------------------------------------------------------------------
(* write_report_html *)

RECURSIVE SumCells(_, _)
SumCells(rows, p) == IF rows = <<>> THEN 0 ELSE Head(rows).c[p] .n + SumCells(Tail(rows), p)

\* float(df[col].sum()) if not df.empty else 0.0
total_of(df, col) == IF df_empty(df) THEN 0 ELSE SumCells(df.rows, ColPos(df, col))

\* The percent change is kept as the exact quotient num/den; None is none.
NoChange == [none |-> TRUE, num |-> 0, den |-> 1]

\* pct_change as it would be if a zero baseline silently gave 0
pct_change_zero_baseline(cur, prev) ==
    IF prev = 0 THEN [none |-> FALSE, num |-> 0, den |-> 1]
    ELSE [none |-> FALSE, num |-> (cur - prev) * 100, den |-> prev]

\* pct_change as it would be with the difference taken the wrong way round
pct_change_reversed(cur, prev) ==
    IF prev = 0 THEN NoChange
    ELSE [none |-> FALSE, num |-> (prev - cur) * 100, den |-> prev]

pct_change(cur, prev) ==
    IF prev = 0 THEN NoChange
    ELSE [none |-> FALSE, num |-> (cur - prev) * 100, den |-> prev]

Abs(x) == IF x < 0 THEN -x ELSE x

\* a / b for a >= 0, b > 0, rounded to the nearest integer, halves to even
RoundHalfEven(a, b) ==
    LET q == a \div b
        r == a % b
    IN  IF 2 * r < b THEN q
        ELSE IF 2 * r > b THEN q + 1
        ELSE IF q % 2 = 0 THEN q ELSE q + 1

\* "N/A", or f"{v:+.1f}%": the sign and the tenths of a percent
fmt_pct(v) ==
    IF v.none THEN [na |-> TRUE, sign |-> "", tenths |-> 0]
    ELSE [na |-> FALSE,
          sign |-> IF (v.num < 0) # (v.den < 0) /\ v.num # 0 THEN "-" ELSE "+",
          tenths |-> RoundHalfEven(Abs(v.num) * 10, Abs(v.den))]

\* chart_html_of as it would be if the image were embedded unconditionally
chart_html_always_img(created) == "img"

\* lines 215-217
chart_html_of(created) == IF created THEN "img" ELSE "Chart not available."

NoHtml ==
    [written |-> FALSE, exc |-> "", total_clicks |-> 0, prev_clicks |-> 0,
     clicks_chg |-> NoChange, clicks_txt |-> fmt_pct(NoChange),
     impr_txt |-> fmt_pct(NoChange), chart_html |-> "", current_rows |-> 0, prev_rows |-> 0]

write_report_html(cur, prev, created) ==
    LET c == normalize_gsc_df(cur)
        q == normalize_gsc_df(prev)
    IN  IF c.exc # "" THEN [NoHtml EXCEPT !.exc = c.exc]
        ELSE IF q.exc # "" THEN [NoHtml EXCEPT !.exc = q.exc]
        ELSE LET total_clicks == total_of(c.df, "clicks")
                 total_impr == total_of(c.df, "impressions")
                 prev_clicks == total_of(q.df, "clicks")
                 prev_impr == total_of(q.df, "impressions")
             IN  [written |-> TRUE, exc |-> "",
                  total_clicks |-> total_clicks, prev_clicks |-> prev_clicks,
                  clicks_chg |-> pct_change(total_clicks, prev_clicks),
                  clicks_txt |-> fmt_pct(pct_change(total_clicks, prev_clicks)),
                  impr_txt |-> fmt_pct(pct_change(total_impr, prev_impr)),
                  chart_html |-> chart_html_of(created),
                  current_rows |-> Len(c.df.rows), prev_rows |-> Len(q.df.rows)]

----------------------------------------------------------------------------
(* The state before any of main, fetch_gsc_data or write_report_html runs *)

SiteText == [k |-> "site", y |-> 0, m |-> 0, d |-> 0, p |-> FALSE]

NoEnv == [GSC_SITE_URL |-> Missing, START_DATE |-> Missing, END_DATE |-> Missing,
          GOOGLE_SA_JSON |-> "missing", PREV_RANGE |-> NoRange]

MainIdle ==
    /\ entry = "none"
    /\ env = NoEnv
    /\ pc = "idle"
    /\ service = "None"
    /\ prev_range = NoRange
    /\ df_current = NoneValue
    /\ df_prev = NoneValue
    /\ fetch_calls = <<>>
    /\ chart_created = FALSE
    /\ chart_file = FALSE
    /\ chart_run = "none"
    /\ html = NoHtml

NormIdle ==
    /\ raw = NoneValue
    /\ res1 = [exc |-> "pending", df |-> NoneValue]
    /\ res2 = [exc |-> "pending", df |-> NoneValue]
    /\ npc = "idle"

----------------------------------------------------------------------------
(* Direct calls of normalize_gsc_df: the raw inputs *)

MaxRows == 2

\* the column layouts a raw record set arrives with
ColumnShapes ==
    { <<>>,
      <<"date", "clicks", "impressions", "ctr", "position">>,
      <<"keys", "clicks", "impressions", "ctr", "position">>,
      <<"keys", "clicks", "impressions">>,
      <<"clicks", "impressions">>,
      <<"keys">>,
      <<" date", "clicks ">>,
      <<"date", "keys">>,
      <<"date", " date">>,
      <<"date", "clicks", "clicks ">> }

\* the layouts combined with a named index
IndexedShapes == { <<"clicks">>, <<"date">>, <<"keys">> }

IndexNames == {"date", " Date ", "week"}

DateCells == {Str("2024-01-01"), Str("bad"), NoneCell}

CellDomain(col) ==
    CASE col = "date" -> DateCells
      [] col = " date" -> {Str("2024-01-01"), Str("bad")}
      [] col = "keys" -> {ListOf(1, "2024-01-01"), ListOf(1, "bad"), ListOf(0, ""), NoneCell}
      [] col = "clicks" -> {Num(1), Str("7"), Str("x")}
      [] col = "clicks " -> {Num(3)}
      [] col = "impressions" -> {Str("100")}
      [] col = "ctr" -> {Num(1)}
      [] OTHER -> {Num(2)}

RECURSIVE CellTuples(_)
CellTuples(cols) ==
    IF cols = <<>> THEN {<<>>}
    ELSE {<<h>> \o t : h \in CellDomain(Head(cols)), t \in CellTuples(Tail(cols))}

\* the row sequences of length n over cols; labels are the index labels on offer
\* (the empty set stands for the default RangeIndex)
RECURSIVE RowSeqs(_, _, _)
RowSeqs(cols, labels, n) ==
    IF n = 0 THEN {<<>>}
    ELSE {Append(rs, [idx |-> l, c |-> cs]) :
            rs \in RowSeqs(cols, labels, n - 1),
            l \in (IF labels = {} THEN {Num(n - 1)} ELSE labels),
            cs \in CellTuples(cols)}

\* the raw tables of at most max rows
RawFrames(max) ==
    UNION {{DataFrame(cols, "", rows) : rows \in RowSeqs(cols, {}, n)} :
             cols \in ColumnShapes, n \in 0..max}
    \cup
    UNION {{DataFrame(sh[1], sh[2], rows) :
              rows \in RowSeqs(sh[1], {Str("2024-01-02"), Str("bad")}, n)} :
             sh \in IndexedShapes \X IndexNames, n \in 1..max}

RawInputs(max) == {NoneValue, NotAFrame} \cup RawFrames(max)

Pending == [exc |-> "pending", df |-> NoneValue]

InitNorm ==
    /\ raw \in RawInputs(MaxRows)
    /\ res1 = Pending
    /\ res2 = Pending
    /\ npc = "call"
    /\ MainIdle

\* normalize_gsc_df(raw)
Normalize ==
    /\ npc = "call"
    /\ res1' = normalize_gsc_df(raw)
    /\ npc' = "once"
    /\ UNCHANGED <<raw, res2>>
    /\ UNCHANGED mainVars

\* the returned table handed to normalize_gsc_df again, as main (lines 300-302),
\* create_chart (line 134) and write_report_html (lines 192-193) do
NormalizeAgain ==
    /\ npc = "once"
    /\ res1.exc = ""
    /\ res2' = normalize_gsc_df(res1.df)
    /\ npc' = "twice"
    /\ UNCHANGED <<raw, res1>>
    /\ UNCHANGED mainVars

NextNorm == Normalize \/ NormalizeAgain

SpecNorm == InitNorm /\ [][NextNorm]_vars

----------------------------------------------------------------------------
(* Claims about normalize_gsc_df, checked under SpecNorm *)

\* C1: for every raw input, normalize_gsc_df raises no exception and returns
\* a table whose columns are exactly date, clicks, impressions, ctr, position,
\* in that order.
C1_NormalizeNeverRaises ==
    npc # "call" => /\ res1.exc = ""
                    /\ res1.df.kind = "df"
                    /\ res1.df.columns = schema

\* C8: normalize_gsc_df is idempotent: the table it returned, handed to it
\* again, comes back identical (same rows, order, values and columns) and
\* without an exception.
C8_Idempotent ==
    npc = "twice" => /\ res2.exc = ""
                     /\ res2.df = res1.df

\* a raw input with a keys column, of which the first call kept some rows and
\* dropped others, has been normalised twice
C8_Witness ==
    /\ npc = "twice"
    /\ "keys" \in ColSet(raw)
    /\ Len(res1.df.rows) > 0
    /\ Len(res1.df.rows) < Len(raw.rows)

\* a cell that is a calendar date or a text that reads as one
ParsesAsDate(c) == c.t = "ts" \/ (c.t = "str" /\ DateStringValue(c.s) # 0)

DateValue(c) == IF c.t = "ts" THEN c.n ELSE DateStringValue(c.s)

HasLabel(df, name) == \E j \in 1..Len(df.columns) : strip(df.columns[j]) = name

LabelPos(df, name) == CHOOSE j \in 1..Len(df.columns) : strip(df.columns[j]) = name

\* the date of row i as the claim reads it: the date column, or the first
\* element of a non-empty list in keys when there is no date column
ClaimedDate(df, i) ==
    IF HasLabel(df, "date") THEN df.rows[i].c[LabelPos(df, "date")]
    ELSE IF HasLabel(df, "keys")
         THEN LET k == df.rows[i].c[LabelPos(df, "keys")]
              IN  IF k.t = "list" /\ k.n > 0 THEN Str(k.s) ELSE NoneCell
         ELSE NoneCell

\* the same, with the labels of an index named date as the last resort
AmendedDate(df, i) ==
    IF ~HasLabel(df, "date") /\ ~HasLabel(df, "keys") /\ df.index_name = "date"
    THEN df.rows[i].idx
    ELSE ClaimedDate(df, i)

ClaimedDates(df) == [i \in 1..Len(df.rows) |-> ClaimedDate(df, i)]

AmendedDates(df) == [i \in 1..Len(df.rows) |-> AmendedDate(df, i)]

\* the positions from i on of the dates that parse, in input order
RECURSIVE DatedFrom(_, _)
DatedFrom(dates, i) ==
    IF i > Len(dates) THEN <<>>
    ELSE (IF ParsesAsDate(dates[i]) THEN <<i>> ELSE <<>>) \o DatedFrom(dates, i + 1)

\* out holds exactly the rows of df at the positions keep, in that order, each
\* with its own date and its own metrics
SameRows(df, dates, keep, out) ==
    /\ Len(out.rows) = Len(keep)
    /\ \A k \in 1..Len(keep) :
         /\ out.rows[k].c[1] = Ts(DateValue(dates[keep[k]]))
         /\ (HasLabel(df, "date") \/ HasLabel(df, "keys")) =>
                out.rows[k].idx = df.rows[keep[k]].idx
         /\ HasLabel(df, "clicks") =>
                out.rows[k].c[2] = fillna0(to_numeric(df.rows[keep[k]].c[LabelPos(df, "clicks")]))

FiltersRows(dates) ==
    (npc # "call" /\ res1.exc = "" /\ raw.kind = "df")
        => /\ SameRows(raw, dates, DatedFrom(dates, 1), res1.df)
           /\ (res1.df = empty) <=> (DatedFrom(dates, 1) = <<>>)

\* C9 as stated: the returned rows are exactly the input rows whose date, from
\* the date column or else from keys, parses as a calendar date, in input
\* order; the result is the empty table only when no row survives.
C9_AsStated == FiltersRows(ClaimedDates(raw))

\* C9 as amended: the same, the date being taken from the date column, or else
\* from keys, or else from the labels of an index named date.
C9_FiltersRows == FiltersRows(AmendedDates(raw))

\* a keys-only input of two rows, the first with an empty keys list, of which
\* exactly the second row was returned
C9_Witness ==
    /\ npc # "call"
    /\ res1.exc = ""
    /\ raw.kind = "df"
    /\ ~HasLabel(raw, "date")
    /\ HasLabel(raw, "keys")
    /\ Len(raw.rows) = 2
    /\ raw.rows[1].c[LabelPos(raw, "keys")] = ListOf(0, "")
    /\ Len(res1.df.rows) = 1
    /\ res1.df.rows[1].idx = raw.rows[2].idx

----------------------------------------------------------------------------
(* main, and direct calls of fetch_gsc_data *)

MaxApiRows == 1

Sites == {Missing, EmptyText, SiteText}

ConfigDates ==
    { Missing, EmptyText, Garbage,
      DateText(2026, 2, 9, TRUE), DateText(2026, 2, 15, TRUE),
      DateText(2026, 1, 3, TRUE),
      DateText(2024, 3, 5, TRUE), DateText(2024, 3, 7, TRUE),
      DateText(2026, 3, 1, FALSE),
      DateText(2026, 2, 30, TRUE),
      DateText(1, 1, 3, TRUE) }

\* a previous period configured explicitly; main reads no such setting
ExplicitPrev == <<DateText(2026, 1, 1, TRUE), DateText(2026, 1, 7, TRUE)>>

Envs ==
    [GSC_SITE_URL : Sites, START_DATE : ConfigDates, END_DATE : ConfigDates,
     GOOGLE_SA_JSON : {"missing", "invalid", "valid"},
     PREV_RANGE : {NoRange, ExplicitPrev}]

ApiRows ==
    [keys : {ListOf(1, "2024-01-01"), ListOf(0, "")},
     clicks : {Num(1), Num(2)},
     impressions : {Num(5)},
     ctr : {Num(1)},
     position : {Num(2)}]

RECURSIVE ApiRowSeqs(_)
ApiRowSeqs(n) ==
    IF n = 0 THEN {<<>>}
    ELSE {Append(rs, r) : rs \in ApiRowSeqs(n - 1), r \in ApiRows}

Responses(max) ==
    {Response("raise", <<>>), Response("bad", <<>>)}
    \cup {Response("ok", rows) : rows \in UNION {ApiRowSeqs(n) : n \in 0..max}}

\* without a service object no query is made and no response exists
ResponsesFor(svc) == IF svc = "None" THEN {Response("none", <<>>)} ELSE Responses(MaxApiRows)

InitMain ==
    /\ NormIdle
    /\ entry \in {"main", "fetch_gsc_data"}
    /\ IF entry = "main"
       THEN /\ env \in Envs
            /\ pc = "start"
            /\ service = "None"
       ELSE /\ env = NoEnv
            /\ pc = "fetch_direct"
            /\ service \in {"None", "service"}
    /\ prev_range = NoRange
    /\ df_current = NoneValue
    /\ df_prev = NoneValue
    /\ fetch_calls = <<>>
    /\ chart_created = FALSE
    /\ chart_file = FALSE
    /\ chart_run = "none"
    /\ html = NoHtml

\* lines 272-275
CheckSite ==
    /\ pc = "start"
    /\ pc' = IF ~Truthy(env.GSC_SITE_URL) THEN "aborted" ELSE "dates"
    /\ UNCHANGED <<entry, env, service, prev_range, df_current, df_prev,
                   fetch_calls, chart_created, chart_file, chart_run, html>>
    /\ UNCHANGED normVars

\* lines 277-281
CheckDates ==
    /\ pc = "dates"
    /\ pc' = IF ~Truthy(env.START_DATE) \/ ~Truthy(env.END_DATE) THEN "aborted" ELSE "format"
    /\ UNCHANGED <<entry, env, service, prev_range, df_current, df_prev,
                   fetch_calls, chart_created, chart_file, chart_run, html>>
    /\ UNCHANGED normVars

\* lines 283-286
CheckFormat ==
    /\ pc = "format"
    /\ pc' = IF dates_malformed(env.START_DATE, env.END_DATE) THEN "aborted" ELSE "service"
    /\ UNCHANGED <<entry, env, service, prev_range, df_current, df_prev,
                   fetch_calls, chart_created, chart_file, chart_run, html>>
    /\ UNCHANGED normVars

\* lines 288-290
GetService ==
    /\ pc = "service"
    /\ service' = get_service_client(env.GOOGLE_SA_JSON)
    /\ pc' = IF service' = "None" THEN "aborted" ELSE "prev"
    /\ UNCHANGED <<entry, env, prev_range, df_current, df_prev,
                   fetch_calls, chart_created, chart_file, chart_run, html>>
    /\ UNCHANGED normVars

\* lines 292-294
CalcPrev ==
    /\ pc = "prev"
    /\ prev_range' = prev_week_or_default(env.START_DATE, env.END_DATE)
    /\ pc' = IF prev_range' = RaisedRange THEN "crashed" ELSE "fetch_current"
    /\ UNCHANGED <<entry, env, service, df_current, df_prev,
                   fetch_calls, chart_created, chart_file, chart_run, html>>
    /\ UNCHANGED normVars

\* line 297
FetchCurrent ==
    /\ pc = "fetch_current"
    /\ \E resp \in ResponsesFor(service) :
         LET r == fetch_gsc_data(service, resp)
         IN  /\ fetch_calls' = Append(fetch_calls,
                                      FetchCall(service, env.START_DATE, env.END_DATE, resp, r))
             /\ df_current' = r.df
             /\ pc' = IF r.exc # "" THEN "crashed" ELSE "fetch_prev"
    /\ UNCHANGED <<entry, env, service, prev_range, df_prev, chart_created, chart_file, chart_run, html>>
    /\ UNCHANGED normVars

\* line 298
FetchPrev ==
    /\ pc = "fetch_prev"
    /\ \E resp \in ResponsesFor(service) :
         LET r == fetch_gsc_data(service, resp)
         IN  /\ fetch_calls' = Append(fetch_calls,
                                      FetchCall(service, prev_range[1], prev_range[2], resp, r))
             /\ df_prev' = r.df
             /\ pc' = IF r.exc # "" THEN "crashed" ELSE "normalize"
    /\ UNCHANGED <<entry, env, service, prev_range, df_current, chart_created, chart_file, chart_run, html>>
    /\ UNCHANGED normVars

\* lines 300-304
Renormalize ==
    /\ pc = "normalize"
    /\ LET c == normalize_gsc_df(df_current)
           q == normalize_gsc_df(df_prev)
       IN  /\ df_current' = c.df
           /\ df_prev' = q.df
           /\ pc' = IF c.exc # "" \/ q.exc # "" THEN "crashed" ELSE "chart"
    /\ UNCHANGED <<entry, env, service, prev_range, fetch_calls, chart_created, chart_file, chart_run, html>>
    /\ UNCHANGED normVars

\* lines 306-307
CreateChart ==
    /\ pc = "chart"
    /\ \E outcome \in ChartOutcomes :
         LET r == create_chart(df_current, outcome)
         IN  /\ chart_created' = r.created
             /\ chart_file' = r.file
             /\ chart_run' = r.run
             /\ pc' = IF r.exc # "" THEN "crashed" ELSE "html"
    /\ UNCHANGED <<entry, env, service, prev_range, df_current, df_prev, fetch_calls, html>>
    /\ UNCHANGED normVars

\* lines 309-325, and a direct call of write_report_html
WriteReport ==
    /\ pc = "html"
    /\ html' = write_report_html(df_current, df_prev, chart_created)
    /\ pc' = IF html'.exc # "" THEN "crashed" ELSE "done"
    /\ UNCHANGED <<entry, env, service, prev_range, df_current, df_prev,
                   fetch_calls, chart_created, chart_file, chart_run>>
    /\ UNCHANGED normVars

\* fetch_gsc_data called on its own, with or without a service object
FetchDirect ==
    /\ pc = "fetch_direct"
    /\ \E resp \in ResponsesFor(service) :
         LET r == fetch_gsc_data(service, resp)
         IN  /\ fetch_calls' = Append(fetch_calls,
                                      FetchCall(service, DateText(2026, 2, 9, TRUE),
                                                DateText(2026, 2, 15, TRUE), resp, r))
             /\ df_current' = r.df
             /\ pc' = IF r.exc # "" THEN "crashed" ELSE "done"
    /\ UNCHANGED <<entry, env, service, prev_range, df_prev, chart_created, chart_file, chart_run, html>>
    /\ UNCHANGED normVars

NextMain ==
    \/ CheckSite
    \/ CheckDates
    \/ CheckFormat
    \/ GetService
    \/ CalcPrev
    \/ FetchCurrent
    \/ FetchPrev
    \/ Renormalize
    \/ CreateChart
    \/ WriteReport
    \/ FetchDirect

SpecMain == InitMain /\ [][NextMain]_vars

----------------------------------------------------------------------------
(* Direct calls of write_report_html on two canonical tables *)

MaxPctRows == 2

ClickValues == {0, 16, 17, 2001, 2002}

RECURSIVE CanonRowSeqs(_)
CanonRowSeqs(n) ==
    IF n = 0 THEN {<<>>}
    ELSE {Append(rs, [idx |-> Num(n - 1),
                      c |-> <<Ts(20240101), Num(k), Num(5), Num(1), Num(2)>>]) :
            rs \in CanonRowSeqs(n - 1), k \in ClickValues}

CanonTables(max) ==
    {DataFrame(schema, "", rows) : rows \in UNION {CanonRowSeqs(n) : n \in 0..max}}

InitPct ==
    /\ NormIdle
    /\ entry = "write_report_html"
    /\ env = NoEnv
    /\ pc = "html"
    /\ service = "None"
    /\ prev_range = NoRange
    /\ df_current \in CanonTables(MaxPctRows)
    /\ df_prev \in CanonTables(MaxPctRows)
    /\ fetch_calls = <<>>
    /\ chart_created \in BOOLEAN
    /\ chart_file = FALSE
    /\ chart_run = "none"
    /\ html = NoHtml

NextPct == WriteReport

SpecPct == InitPct /\ [][NextPct]_vars

----------------------------------------------------------------------------
(* Claims about fetch_gsc_data and main, checked under SpecMain *)

Terminated == pc \in {"done", "aborted", "crashed"}

\* a configured text that is a calendar date in YYYY-MM-DD form
IsCalendarDate(s) ==
    /\ s.k = "ymd"
    /\ s.m \in 1..12
    /\ s.d >= 1
    /\ s.d <= DaysInMonth(s.y, s.m)

\* the site identifier and the current-period dates are present and well-formed
ConfigOk ==
    /\ env.GSC_SITE_URL.k = "site"
    /\ IsCalendarDate(env.START_DATE)
    /\ IsCalendarDate(env.END_DATE)

\* C2: fetch_gsc_data never propagates an exception; when there is no service
\* object, when the query raises or when the response cannot be parsed it
\* returns the empty canonical table; so in main a failed previous-period
\* fetch never stops the report for the current period.
C2_FetchNeverRaises ==
    /\ \A i \in 1..Len(fetch_calls) :
         /\ fetch_calls[i].exc = ""
         /\ fetch_calls[i].df.kind = "df"
         /\ fetch_calls[i].df.columns = schema
         /\ fetch_calls[i].failed => fetch_calls[i].df = empty
    /\ (entry = "main" /\ Len(fetch_calls) = 2 /\ fetch_calls[2].failed)
         => /\ pc # "crashed"
            /\ pc = "done" => /\ html.written
                              /\ html.current_rows = Len(fetch_calls[1].df.rows)

\* a run of main whose previous-period query raised, finished with the report
\* of a non-empty current period
C2_Witness ==
    /\ entry = "main"
    /\ pc = "done"
    /\ Len(fetch_calls) = 2
    /\ fetch_calls[2].failed
    /\ fetch_calls[2].queried
    /\ ~fetch_calls[1].failed
    /\ html.written
    /\ html.current_rows > 0

\* C3: every run of main whose site identifier and current-period dates are
\* present and well-formed ends with the HTML document written.
C3_ReportAlwaysWritten ==
    (entry = "main" /\ Terminated /\ ConfigOk) => html.written

\* C4: when the site identifier is missing, or a current-period date is
\* missing or not a YYYY-MM-DD date, main returns early and fetch_gsc_data is
\* never called (no API query is made).
C4_NoFetchOnConfigError ==
    (entry = "main" /\ ~ConfigOk)
        => /\ fetch_calls = <<>>
           /\ pc \in {"start", "dates", "format", "aborted"}
           /\ ~html.written

\* a run with a site identifier and a start date that is no calendar date has
\* returned early
C4_Witness ==
    /\ entry = "main"
    /\ pc = "aborted"
    /\ env.GSC_SITE_URL.k = "site"
    /\ env.START_DATE = DateText(2026, 2, 30, TRUE)
    /\ IsCalendarDate(env.END_DATE)
    /\ env.GOOGLE_SA_JSON = "valid"
    /\ fetch_calls = <<>>

\* the day before a calendar day
DayBefore(dt) ==
    IF dt.d > 1 THEN Date(dt.y, dt.m, dt.d - 1)
    ELSE IF dt.m > 1 THEN Date(dt.y, dt.m - 1, DaysInMonth(dt.y, dt.m - 1))
    ELSE Date(dt.y - 1, 12, 31)

RECURSIVE DaysEarlier(_, _)
DaysEarlier(dt, n) == IF n = 0 THEN dt ELSE DaysEarlier(DayBefore(dt), n - 1)

\* the YYYY-MM-DD text of the day 7 days before the day a text names
WeekEarlier(s) ==
    LET dt == DaysEarlier(Date(s.y, s.m, s.d), 7)
    IN  DateText(dt.y, dt.m, dt.d, TRUE)

PrevFetched == entry = "main" /\ Len(fetch_calls) >= 2

\* C7 as stated: the previous-period fetch uses the explicitly configured
\* previous start/end when those are given, and otherwise exactly
\* (current start - 7 days, current end - 7 days).
C7_AsStated ==
    PrevFetched =>
        IF env.PREV_RANGE # NoRange
        THEN /\ fetch_calls[2].start = env.PREV_RANGE[1]
             /\ fetch_calls[2].end = env.PREV_RANGE[2]
        ELSE /\ fetch_calls[2].start = WeekEarlier(env.START_DATE)
             /\ fetch_calls[2].end = WeekEarlier(env.END_DATE)

\* C7 as amended: the previous-period fetch always uses exactly (current
\* start - 7 days, current end - 7 days), also across month and year
\* boundaries, whatever else is configured.
C7_PrevIsWeekEarlier ==
    PrevFetched =>
        /\ fetch_calls[2].start = WeekEarlier(env.START_DATE)
        /\ fetch_calls[2].end = WeekEarlier(env.END_DATE)

\* the previous period of a run from 2026-01-03 to 2026-3-1 was fetched from
\* 2025-12-27 to 2026-02-22
C7_Witness ==
    /\ PrevFetched
    /\ env.START_DATE = DateText(2026, 1, 3, TRUE)
    /\ env.END_DATE = DateText(2026, 3, 1, FALSE)
    /\ fetch_calls[2].start = DateText(2025, 12, 27, TRUE)
    /\ fetch_calls[2].end = DateText(2026, 2, 22, TRUE)

\* C10: the chart image is written only when the current-period table is
\* non-empty; the HTML embeds the image only when create_chart reported
\* success in this run; with an empty current table or a failed rendering the
\* HTML carries the "Chart not available." text.
C10_ChartOnlyWithData ==
    entry = "main" =>
        /\ chart_file => (pc \in {"html", "done"} /\ ~df_empty(df_current))
        /\ chart_created => chart_run = "ok"
        /\ html.written =>
             /\ html.chart_html = "img" => chart_created
             /\ (df_empty(df_current) \/ chart_run # "ok")
                    => html.chart_html = "Chart not available."

\* a run with a non-empty current period whose rendering failed after the
\* image file had been opened has written the HTML without the image
C10_Witness ==
    /\ entry = "main"
    /\ pc = "done"
    /\ ~df_empty(df_current)
    /\ chart_run = "fail_after_save"
    /\ chart_file
    /\ html.written
    /\ html.chart_html = "Chart not available."

----------------------------------------------------------------------------
(* Claims about the percent change, checked under SpecPct *)

RECURSIVE ClicksFrom(_, _)
ClicksFrom(df, i) == IF i > Len(df.rows) THEN 0 ELSE df.rows[i].c[2].n + ClicksFrom(df, i + 1)

current_total == ClicksFrom(df_current, 1)
previous_total == ClicksFrom(df_prev, 1)
absolute_diff == current_total - previous_total

\* the reported value, in tenths of a percent
ReportedTenths ==
    IF html.clicks_txt.sign = "-" THEN 0 - html.clicks_txt.tenths ELSE html.clicks_txt.tenths

\* C5: the percent change of clicks is the undefined sentinel if and only if
\* the previous total is 0; otherwise it is (current - previous) / previous *
\* 100 rounded to one decimal place, with its sign.
C5_PercentChange ==
    html.written =>
        /\ html.clicks_chg.none <=> (previous_total = 0)
        /\ html.clicks_txt.na <=> (previous_total = 0)
        /\ previous_total # 0 =>
             /\ 2 * Abs(ReportedTenths * previous_total - absolute_diff * 1000)
                    <= Abs(previous_total)
             /\ (html.clicks_txt.sign = "-") <=> (absolute_diff < 0)

\* a report over a previous period without clicks and a current period with
\* clicks shows N/A
C5_Witness ==
    /\ html.written
    /\ Len(df_prev.rows) > 0
    /\ previous_total = 0
    /\ current_total > 0
    /\ html.clicks_txt.na

\* C6 as stated: for a previous total > 0 the reported percent change (rounded
\* to one decimal place) is > 0 if and only if the absolute difference is > 0.
C6_AsStated ==
    (html.written /\ previous_total > 0)
        => ((ReportedTenths > 0) <=> (absolute_diff > 0))

\* C6 as amended: for a previous total > 0 the percent change before rounding
\* is > 0 if and only if the absolute difference is > 0; the reported value is
\* > 0 only if the difference is > 0, is never shown negative for a positive
\* difference, and is 0.0 for a positive difference only below 0.05 percent.
C6_SignOfChange ==
    (html.written /\ previous_total > 0)
        => /\ (html.clicks_chg.num > 0 /\ html.clicks_chg.den > 0) <=> (absolute_diff > 0)
           /\ ReportedTenths > 0 => absolute_diff > 0
           /\ absolute_diff > 0 => html.clicks_txt.sign = "+"
           /\ (absolute_diff > 0 /\ ReportedTenths = 0) => absolute_diff * 2000 <= previous_total

\* a rise from 2001 to 2002 clicks is reported as +0.0%
C6_Witness ==
    /\ html.written
    /\ previous_total = 2001
    /\ current_total = 2002
    /\ html.clicks_txt.sign = "+"
    /\ html.clicks_txt.tenths = 0

====
